---- MODULE Spec2Model ----
(***************************************************************************)
(* Model of system_optimizer/file_manager.py: the bounded top-K file scan  *)
(* (DiskScanner.scan), the predicate search (FileSearch.search), the path  *)
(* walker both are built on, and delete_files; and of the parts of the     *)
(* application around it: monitor.HistoricalSeries, the schedule           *)
(* configuration and its timer, the wireless page, and logs.read_logs.     *)
(*                                                                         *)
(* A path is a sequence of parts below the root; a part (a file or a       *)
(* directory name) is a sequence of one-character strings, so that         *)
(* str.lower(), the substring test, str.endswith() and the ordering of     *)
(* pathlib paths are computed character by character.                      *)
(***************************************************************************)
EXTENDS Integers, Sequences, FiniteSets, TLC

\* ------------------------------------------------------------------ bounds
MaxPaths == 3   \* number of paths of AllPaths a file tree may hold
MaxSize == 1    \* file sizes and min_size range over 0..MaxSize
MaxK == 2       \* max_results ranges over -1..MaxK
MaxDelete == 3  \* delete_files is called with at most MaxDelete paths
MaxWalkPaths == 6  \* number of paths of AllPaths a tree that is only walked may hold
MaxConcPaths == 2  \* number of paths of AllPaths a tree two scanners scan may hold
MaxLen == 2     \* HistoricalSeries.maxlen ranges over 0..MaxLen
MaxAppends == 5 \* HistoricalSeries.append is called at most MaxAppends times
MaxValue == 1   \* the values appended range over 0..MaxValue
MaxInt == 10    \* the integers of a configuration range over -1..MaxInt
MaxInterval == 2  \* the tune-up interval ranges over 0..MaxInterval minutes
MaxExecs == 2   \* the schedule timer fires at most MaxExecs times
MaxLogFiles == 2  \* number of the files of LOG_FILES that are modelled
MaxLines == 2   \* a log file holds at most MaxLines lines
MaxLimit == 2   \* read_logs is called with a limit in 0..MaxLimit
MaxEvents == 7  \* the wireless toggles are clicked at most MaxEvents times

\* ------------------------------------------------------- names and paths
\* Code points of the characters used in the names (ASCII).
Ord ==
  ("." :> 46) @@ ("A" :> 65) @@ ("B" :> 66) @@ ("D" :> 68) @@ ("L" :> 76) @@
  ("a" :> 97) @@ ("b" :> 98) @@ ("d" :> 100) @@ ("e" :> 101) @@ ("l" :> 108)

\* The candidate paths of a file tree, as parts below the root:
\* a.L, B.l, d/A, d/a.L, b, e/B.l, e/b
AllPaths ==
  << << <<"a", ".", "L">> >>,
     << <<"B", ".", "l">> >>,
     << <<"d">>, <<"A">> >>,
     << <<"d">>, <<"a", ".", "L">> >>,
     << <<"b">> >>,
     << <<"e">>, <<"B", ".", "l">> >>,
     << <<"e">>, <<"b">> >> >>

Min(a, b) == IF a < b THEN a ELSE b
Max(a, b) == IF a < b THEN b ELSE a

PathPool == { AllPaths[i] : i \in 1..Min(MaxPaths, Len(AllPaths)) }

\* Path.name: the final component.
BaseName(p) == p[Len(p)]

\* The directory a path lies in (<< >> is the root itself).
DirOf(p) == SubSeq(p, 1, Len(p) - 1)

\* The directories above p, the root excluded.
Ancestors(p) == { SubSeq(p, 1, i) : i \in 1..(Len(p) - 1) }

\* str.lower() on one character, then on a string.
LowerChar(c) ==
  IF Ord[c] >= 65 /\ Ord[c] <= 90
    THEN CHOOSE d \in DOMAIN Ord : Ord[d] = Ord[c] + 32
    ELSE c

Lower(s) == [i \in 1..Len(s) |-> LowerChar(s[i])]

\* needle in hay (Python's substring operator on str).
Contains(hay, needle) ==
  \E i \in 0..(Len(hay) - Len(needle)) :
    SubSeq(hay, i + 1, i + Len(needle)) = needle

\* hay.endswith(suffix)
EndsWith(hay, suffix) ==
  /\ Len(suffix) <= Len(hay)
  /\ SubSeq(hay, Len(hay) - Len(suffix) + 1, Len(hay)) = suffix

\* str < str: lexicographic by code point, a proper prefix being smaller.
StrLess(s, t) ==
  \E i \in 1..(Min(Len(s), Len(t)) + 1) :
    /\ \A j \in 1..(i - 1) : s[j] = t[j]
    /\ \/ i > Len(s) /\ i <= Len(t)
       \/ i <= Len(s) /\ i <= Len(t) /\ Ord[s[i]] < Ord[t[i]]

\* PurePath.__lt__: the lists of parts compared lexicographically.
PathLess(p, q) ==
  \E i \in 1..(Min(Len(p), Len(q)) + 1) :
    /\ \A j \in 1..(i - 1) : p[j] = q[j]
    /\ \/ i > Len(p) /\ i <= Len(q)
       \/ i <= Len(p) /\ i <= Len(q) /\ StrLess(p[i], q[i])

\* (size, path) < (size, path): Python's tuple comparison.
TupleLess(a, b) ==
  \/ a[1] < b[1]
  \/ a[1] = b[1] /\ PathLess(a[2], b[2])

\* ------------------------------------------------------------------ state
VARIABLES
  rootExists,   \* whether the root directory exists
  files,        \* the files below the root: path -> [size, stat]
  unlistable,   \* the directories whose listing is denied
  max_results,  \* DiskScanner.max_results
  pc,           \* "idle", "ready", "scan_loop", "scan_pushed", "search_loop",
                \* "delete_loop", "walk_loop", "done", "raised"
  op,           \* the call in progress or finished: "none", "scan", "search",
                \* "delete" (delete_files), "delete_selected" (the button's handler),
                \* "walk" (the walk on its own)
  todo,         \* the paths the walker has still to yield
  heap,         \* scan: the candidate heap, a set of <<size, path>>
  results,      \* scan: the returned list of FileInfo
  name,         \* search: the name predicate
  extension,    \* search: the extension predicate
  min_size,     \* search: the size threshold
  matches,      \* search: the list of matches
  err           \* the exception that left the call, "none" when there is none

\* delete_files and the handler of the "Delete Selected Files" button.
VARIABLES
  undeletable,  \* the files whose unlink is denied
  paths,        \* delete_files: the paths it is called with
  di,           \* delete_files: how many of them the loop has handled
  removed,      \* delete_files: the list of removed paths
  files0,       \* the files below the root when delete_files was called
  confirmed     \* whether the user was asked and confirmed the deletion

deleteVars == << undeletable, paths, di, removed, files0, confirmed >>

\* list(self._walk_paths()): the walk on its own.
VARIABLES
  walked        \* the paths the generator has yielded, in order

\* What DiskScanner and FileSearch never touch.
\* A second call of scan or search after the first has returned.
VARIABLES
  calls,         \* which call this is: 1 or 2
  prev_results,  \* what the first scan returned
  prev_matches   \* what the first search returned, as a set

repeatVars == << calls, prev_results, prev_matches >>

\* A second DiskScanner, scanning at the same time as the first.
VARIABLES
  max_results2,  \* its max_results
  pc2,           \* "idle", "scan_loop", "scan_pushed", "done", "raised"
  todo2,         \* the paths its walker has still to yield
  heap2,         \* its candidate heap
  results2       \* the list it returned

scan2Vars == << max_results2, pc2, todo2, heap2, results2 >>

\* monitor.HistoricalSeries: the history of one metric.
VARIABLES
  maxlen,        \* HistoricalSeries.maxlen
  values,        \* HistoricalSeries.values, the deque, oldest value first
  appended       \* every value append was called with, in order (history)

seriesVars == << maxlen, values, appended >>

\* The state of the rest of the application, which the file manager never
\* touches.
\* save_schedule_config and load_schedule_config, and the file between them.
VARIABLES
  schedule_file, \* the text of schedule.json as JSON tokens, NoFile when absent
  config,        \* the dict save_schedule_config was last called with
  loaded,        \* the dict load_schedule_config last returned
  cfg_pc         \* "start", "saved" or "loaded": the last of the two calls

configVars == << schedule_file, config, loaded, cfg_pc >>

\* The wireless page of optimizer.MainWindow.
VARIABLES
  airplane_mode,          \* self.airplane_mode
  wifi_enabled,           \* self.wifi_enabled
  bluetooth_enabled,      \* self.bluetooth_enabled
  casting_enabled,        \* self.casting_enabled
  airplane_toggle,        \* the check boxes: [checked, enabled]
  wifi_toggle,
  bluetooth_toggle,
  casting_toggle,
  wifi_status_label,      \* the text after "Wi-Fi: "
  bluetooth_status_label, \* the text after "Bluetooth: "
  casting_status_label,   \* the text after "Casting: "
  prior,                  \* the three values when airplane mode was last
                          \* switched on (history)
  events                  \* the number of clicks so far

wirelessVars ==
  << airplane_mode, wifi_enabled, bluetooth_enabled, casting_enabled,
     airplane_toggle, wifi_toggle, bluetooth_toggle, casting_toggle,
     wifi_status_label, bluetooth_status_label, casting_status_label,
     prior, events >>

\* The settings page of app.MainWindow, its schedule timer, and the entries
\* of the temporary directories.
VARIABLES
  win,                   \* "closed" before MainWindow.__init__, then "open"
  schedule_config,       \* self.schedule_config
  auto_cleanup_checkbox, \* isChecked() of the three input widgets
  dark_mode_checkbox,
  schedule_spin,         \* value() of the spin box
  timer_active,          \* schedule_timer.isActive()
  timer_period,          \* schedule_timer.interval(), in milliseconds
  executions,            \* how often execute_scheduled_tasks has run
  cleanups,              \* how often clean_temp_files has run
  refreshes,             \* how often a tune-up has called refresh_dashboard
  temp_entries           \* the entries of the temporary directories

scheduleVars ==
  << win, schedule_config, auto_cleanup_checkbox, dark_mode_checkbox,
     schedule_spin, timer_active, timer_period, executions, cleanups,
     refreshes, temp_entries >>

\* logs.read_logs and the log files.
VARIABLES
  log_files,     \* for each file of LOG_FILES: absent, denied, or its lines
  limit,         \* the argument of read_logs
  entries,       \* read_logs: the list it builds and returns
  taken,         \* for each file, the lines read_logs took from it (history)
  li,            \* how many files of LOG_FILES the loop has handled
  log_pc         \* "idle", "loop" or "done"

logVars == << log_files, limit, entries, taken, li, log_pc >>

appVars == << seriesVars, configVars, wirelessVars, scheduleVars, logVars >>

restVars == << repeatVars, scan2Vars, appVars >>

otherVars == << deleteVars, walked, restVars >>

vars ==
  << rootExists, files, unlistable, max_results, pc, op, todo, heap, results,
     name, extension, min_size, matches, err, otherVars >>

\* The outcomes of Path.stat(): "ok", or the exception raised.
StatOutcomes == {"ok", "FileNotFoundError", "PermissionError", "OSError"}

FileInfo(p, s) == [path |-> p, size |-> s]

\* The arguments the search is called with.
NameInputs == { << >>, <<"A">> }
ExtensionInputs == { << >>, <<".", "L">> }

\* The constructor's default for max_results.
DefaultMaxResults == 50

\* A file a successful stat reads the size of, and one whose stat raises e.
FileStates ==
  [stat : {"ok"}, size : 0..MaxSize]
    \cup [stat : StatOutcomes \ {"ok"}, size : {0}]

\* The directories of a file tree that holds the paths ps.
DirsOf(ps) == UNION { Ancestors(p) : p \in ps }

TypeOK ==
  /\ rootExists \in BOOLEAN
  /\ DOMAIN files \subseteq { AllPaths[i] : i \in DOMAIN AllPaths }
  /\ \A p \in DOMAIN files : files[p] \in FileStates
  /\ unlistable \subseteq DirsOf(DOMAIN files)
  /\ max_results \in (-1..MaxK) \cup {DefaultMaxResults}
  /\ pc \in {"idle", "ready", "scan_loop", "scan_pushed", "search_loop",
            "delete_loop", "walk_loop", "done", "raised"}
  /\ op \in {"none", "scan", "search", "delete", "delete_selected", "walk"}
  /\ todo \subseteq { AllPaths[i] : i \in DOMAIN AllPaths }
  /\ heap \subseteq (0..MaxSize) \X PathPool
  /\ name \in NameInputs
  /\ extension \in ExtensionInputs
  /\ min_size \in 0..MaxSize
  /\ err \in {"none"} \cup (StatOutcomes \ {"ok"})

\* ------------------------------------------------------------- the walker
\* os.scandir(d) as os.walk calls it: "ok", or the exception it raises.
Scandir(d) ==
  IF ~rootExists THEN "FileNotFoundError"
  ELSE IF d \in unlistable THEN "PermissionError"
  ELSE "ok"

\* Mutant of WalkIgnores: os.walk called with an onerror that raises.
WalkIgnoresNothing(e) == FALSE

\* Mutant of WalkIgnores: only a denied listing is skipped, a missing
\* directory is raised.
WalkIgnoresDeniedOnly(e) == e = "PermissionError"

\* os.walk(top) is called without onerror: every OSError of scandir (of which
\* FileNotFoundError and PermissionError are subclasses) is swallowed and the
\* directory is skipped.
WalkIgnores(e) == e \in {"FileNotFoundError", "PermissionError", "OSError"}

\* The directories os.walk tries to list: the root and every directory all of
\* whose ancestors could be listed.
WalkDirs ==
  { << >> } \cup
  { d \in DirsOf(DOMAIN files) :
      rootExists /\ \A i \in 1..(Len(d) - 1) : SubSeq(d, 1, i) \notin unlistable }

\* The exception the walk ends with, "none" when it ends by exhaustion.
WalkError ==
  LET bad == { d \in WalkDirs : Scandir(d) # "ok" /\ ~WalkIgnores(Scandir(d)) }
  IN  IF bad = {} THEN "none" ELSE Scandir(CHOOSE d \in bad : TRUE)

\* _walk_paths: the paths the generator yields, one for every file of every
\* directory that could be listed.
WalkPaths ==
  { p \in DOMAIN files :
      rootExists /\ \A d \in Ancestors(p) : d \notin unlistable }

\* The paths the generator may yield next. os.walk is top-down and yields the
\* files of one directory together; the order inside a directory and among
\* sibling directories is that of the directory entries, which is unspecified.
NextPaths ==
  LET yielded == WalkPaths \ todo
      started == { DirOf(p) : p \in yielded } \cap { DirOf(p) : p \in todo }
  IN  { p \in todo :
          /\ started # {} => DirOf(p) \in started
          /\ \A q \in todo : Len(DirOf(q)) >= Len(DirOf(p)) }

\* -------------------------------------------------------------------- stat
\* path.stat().st_size: the outcome and, when it is "ok", the size.
\* A path that is no longer there raises FileNotFoundError.
Stat(p) ==
  IF p \in DOMAIN files
    THEN files[p]
    ELSE [stat |-> "FileNotFoundError", size |-> 0]

\* Mutant of StatCaught: FileNotFoundError is not caught.
StatCaughtDeniedOnly(e) == e = "PermissionError"

\* except (PermissionError, FileNotFoundError): continue
StatCaught(e) == e \in {"PermissionError", "FileNotFoundError"}

\* ----------------------------------------------------------------- heapq
\* Mutant of HeapMin: the entries are ordered by path alone (the tuple built
\* as (path, size)).
HeapMinByPath(h) == CHOOSE m \in h : \A x \in h : x = m \/ PathLess(m[2], x[2])

\* Mutant of HeapMin: among the entries of the smallest size, the one of the
\* greatest path counts as the smallest (ties on size broken the other way).
HeapMinGreatestPath(h) ==
  CHOOSE m \in h :
    \A x \in h :
      x = m \/ m[1] < x[1] \/ (m[1] = x[1] /\ PathLess(x[2], m[2]))

\* The smallest entry of a non-empty heap, heap[0].
HeapMin(h) == CHOOSE m \in h : \A x \in h : x = m \/ TupleLess(m, x)

\* Mutant of HeapPush: an entry whose size the heap already holds is not added
\* (candidates keyed by size).
HeapPushDistinctSizes(h, item) ==
  IF \E x \in h : x[1] = item[1] THEN h ELSE h \cup {item}

HeapPush(h, item) == h \cup {item}

\* Mutant of HeapPop: the largest entry is removed instead of the smallest
\* (a max-heap where a min-heap is meant).
HeapPopLargest(h) ==
  h \ {CHOOSE m \in h : \A x \in h : x = m \/ TupleLess(x, m)}

HeapPop(h) == h \ {HeapMin(h)}

\* Mutant of TrimNeeded: >= for >.
TrimNeededAtBound(h, K) == Cardinality(h) >= K

\* Mutant of TrimNeeded: the bound off by one.
TrimNeededOneLate(h, K) == Cardinality(h) > K + 1

\* Mutant of TrimNeeded: a bound of 0 taken for "no bound"
\* (if self.max_results and len(heap) > self.max_results).
TrimNeededUnlessZero(h, K) == K # 0 /\ Cardinality(h) > K

\* if len(heap) > self.max_results
TrimNeeded(h, K) == Cardinality(h) > K

\* Mutant of SortedDesc: reverse=True forgotten.
RECURSIVE SortedAsc(_)
SortedAsc(h) ==
  IF h = {} THEN << >>
  ELSE LET m == CHOOSE x \in h : \A y \in h : y = x \/ TupleLess(x, y)
       IN  <<m>> \o SortedAsc(h \ {m})

\* Mutant of SortedDesc: sizes descending, ties by ascending path
\* (key=lambda t: (-t[0], t[1])).
RECURSIVE SortedSizeDescPathAsc(_)
SortedSizeDescPathAsc(h) ==
  IF h = {} THEN << >>
  ELSE LET m == CHOOSE x \in h :
                  \A y \in h :
                    \/ y = x
                    \/ y[1] < x[1]
                    \/ y[1] = x[1] /\ PathLess(x[2], y[2])
       IN  <<m>> \o SortedSizeDescPathAsc(h \ {m})

\* sorted(heap, reverse=True), as a sequence of <<size, path>>.
RECURSIVE SortedDesc(_)
SortedDesc(h) ==
  IF h = {} THEN << >>
  ELSE LET m == CHOOSE x \in h : \A y \in h : y = x \/ TupleLess(y, x)
       IN  <<m>> \o SortedDesc(h \ {m})

\* [FileInfo(path=p, size=s) for s, p in ...]
ToFileInfos(ts) == [i \in 1..Len(ts) |-> FileInfo(ts[i][2], ts[i][1])]

\* ------------------------------------------------------------------- Init
EmptyFiles == [p \in {} |-> 0]

\* No deletion is under way.
DeleteIdle ==
  /\ undeletable = {}
  /\ paths = << >>
  /\ di = 0
  /\ removed = << >>
  /\ files0 = EmptyFiles
  /\ confirmed = FALSE

\* A series that is not used.
SeriesIdle ==
  /\ maxlen = 0
  /\ values = << >>
  /\ appended = << >>

\* No file.
NoFile == << [t |-> "absent", v |-> ""] >>

\* The empty dict, {}.
EmptyDict == [k \in {} |-> 0]

\* No configuration saved or loaded, and no schedule.json.
ConfigIdle ==
  /\ schedule_file = NoFile
  /\ config = EmptyDict
  /\ loaded = EmptyDict
  /\ cfg_pc = "start"

\* Qt.Unchecked and Qt.Checked, the argument of stateChanged.
QtUnchecked == 0
QtChecked == 2

CheckBox(c, e) == [checked |-> c, enabled |-> e]

\* "Enabled" if flag else "Disabled"
StateText(flag) == IF flag THEN "Enabled" ELSE "Disabled"

\* The wireless page as MainWindow.__init__ and the construction of the page
\* leave it: Wi-Fi on, the rest off, every check box enabled.
WirelessIdle ==
  /\ airplane_mode = FALSE
  /\ wifi_enabled = TRUE
  /\ bluetooth_enabled = FALSE
  /\ casting_enabled = FALSE
  /\ airplane_toggle = CheckBox(FALSE, TRUE)
  /\ wifi_toggle = CheckBox(TRUE, TRUE)
  /\ bluetooth_toggle = CheckBox(FALSE, TRUE)
  /\ casting_toggle = CheckBox(FALSE, TRUE)
  /\ wifi_status_label = StateText(TRUE)
  /\ bluetooth_status_label = StateText(FALSE)
  /\ casting_status_label = StateText(FALSE)
  /\ prior = << TRUE, FALSE, FALSE >>
  /\ events = 0

\* No window yet.
ScheduleIdle ==
  /\ win = "closed"
  /\ schedule_config = EmptyDict
  /\ auto_cleanup_checkbox = FALSE
  /\ dark_mode_checkbox = FALSE
  /\ schedule_spin = 0
  /\ timer_active = FALSE
  /\ timer_period = 0
  /\ executions = 0
  /\ cleanups = 0
  /\ refreshes = 0
  /\ temp_entries = {}

\* A log file that does not exist.
AbsentLog == [state |-> "absent", lines |-> << >>]

\* read_logs is not called, and no log file exists.
LogsIdle ==
  /\ log_files = [f \in 1..MaxLogFiles |-> AbsentLog]
  /\ limit = 0
  /\ entries = << >>
  /\ taken = [f \in 1..MaxLogFiles |-> << >>]
  /\ li = 0
  /\ log_pc = "idle"

\* The rest of the application at rest.
AppIdle ==
  SeriesIdle /\ ConfigIdle /\ WirelessIdle /\ ScheduleIdle /\ LogsIdle

\* The first call; no second scanner.
RestIdle ==
  /\ AppIdle
  /\ calls = 1
  /\ prev_results = << >>
  /\ prev_matches = {}
  /\ max_results2 = DefaultMaxResults
  /\ pc2 = "idle"
  /\ todo2 = {}
  /\ heap2 = {}
  /\ results2 = << >>

Init ==
  /\ RestIdle
  /\ DeleteIdle
  /\ walked = << >>
  /\ rootExists \in BOOLEAN
  /\ files \in IF rootExists
                 THEN UNION { [S -> FileStates] : S \in SUBSET PathPool }
                 ELSE {EmptyFiles}
  /\ unlistable \in SUBSET DirsOf(DOMAIN files)
  /\ max_results = DefaultMaxResults
  /\ pc = "idle"
  /\ op = "none"
  /\ todo = {}
  /\ heap = {}
  /\ results = << >>
  /\ name = << >>
  /\ extension = << >>
  /\ min_size = 0
  /\ matches = << >>
  /\ err = "none"

fsVars == << rootExists, files, unlistable >>
searchVars == << name, extension, min_size, matches >>

\* ------------------------------------------------------------ DiskScanner
\* DiskScanner(root, K), or DiskScanner(root) with the default.
NewDiskScanner(K) ==
  /\ pc = "idle"
  /\ pc' = "ready"
  /\ max_results' = K
  /\ UNCHANGED << fsVars, otherVars, op, todo, heap, results, searchVars, err >>

\* Mutant of ScanStart: the generator is kept from one scan to the next
\* (created once and stored on the scanner), so a second scan finds it
\* exhausted.
ScanStartKeepsWalk ==
  /\ pc = "ready"
  /\ pc' = "scan_loop"
  /\ op' = "scan"
  /\ heap' = {}
  /\ todo' = IF op = "scan" THEN todo ELSE WalkPaths
  /\ UNCHANGED << fsVars, otherVars, max_results, results, searchVars, err >>

\* scan(): heap = [] and the walk is started.
ScanStart ==
  /\ pc = "ready"
  /\ pc' = "scan_loop"
  /\ op' = "scan"
  /\ heap' = {}
  /\ todo' = WalkPaths
  /\ UNCHANGED << fsVars, otherVars, max_results, results, searchVars, err >>

\* Mutant of ScanNext: a candidate that finds the heap full is dropped
\* (if len(heap) >= self.max_results: continue), so the first K files seen are
\* kept.
ScanNextKeepsFirst ==
  /\ pc = "scan_loop"
  /\ \E p \in NextPaths :
       LET st == Stat(p) IN
       /\ todo' = todo \ {p}
       /\ IF st.stat = "ok" /\ Cardinality(heap) < max_results
            THEN /\ heap' = HeapPush(heap, <<st.size, p>>)
                 /\ pc' = "scan_pushed"
                 /\ err' = err
            ELSE IF st.stat = "ok" \/ StatCaught(st.stat)
              THEN UNCHANGED << heap, pc, err >>
              ELSE /\ pc' = "raised"
                   /\ err' = st.stat
                   /\ heap' = heap
  /\ UNCHANGED << fsVars, otherVars, max_results, op, results, searchVars >>

\* One path of the walk: stat it, skip it on a caught error, else push it.
ScanNext ==
  /\ pc = "scan_loop"
  /\ \E p \in NextPaths :
       LET st == Stat(p) IN
       /\ todo' = todo \ {p}
       /\ IF st.stat = "ok"
            THEN /\ heap' = HeapPush(heap, <<st.size, p>>)
                 /\ pc' = "scan_pushed"
                 /\ err' = err
            ELSE IF StatCaught(st.stat)
              THEN UNCHANGED << heap, pc, err >>
              ELSE /\ pc' = "raised"
                   /\ err' = st.stat
                   /\ heap' = heap
  /\ UNCHANGED << fsVars, otherVars, max_results, op, results, searchVars >>

\* if len(heap) > self.max_results: heapq.heappop(heap)
ScanTrim ==
  /\ pc = "scan_pushed"
  /\ heap' = IF TrimNeeded(heap, max_results) THEN HeapPop(heap) ELSE heap
  /\ pc' = "scan_loop"
  /\ UNCHANGED << fsVars, otherVars, max_results, op, todo, results, searchVars, err >>

\* Mutant of ScanReturn: the scanner remembers how many entries it returned
\* in its own bound (self.max_results = len(results)).
ScanReturnStoresCount ==
  /\ pc = "scan_loop"
  /\ todo = {}
  /\ WalkError = "none"
  /\ results' = ToFileInfos(SortedDesc(heap))
  /\ max_results' = Len(results')
  /\ pc' = "done"
  /\ UNCHANGED << fsVars, otherVars, op, todo, heap, searchVars, err >>

\* The walk is exhausted: the heap is sorted into the result.
ScanReturn ==
  /\ pc = "scan_loop"
  /\ todo = {}
  /\ IF WalkError = "none"
       THEN /\ results' = ToFileInfos(SortedDesc(heap))
            /\ pc' = "done"
            /\ err' = err
       ELSE /\ pc' = "raised"
            /\ err' = WalkError
            /\ results' = results
  /\ UNCHANGED << fsVars, otherVars, max_results, op, todo, heap, searchVars >>

\* ------------------------------------------------------------- FileSearch
\* Mutant of NameRejects: the case folding forgotten.
NameRejectsCaseSensitive(n, p) == n # << >> /\ ~Contains(BaseName(p), n)

\* if name and name.lower() not in path.name.lower(): continue
NameRejects(n, p) == n # << >> /\ ~Contains(Lower(BaseName(p)), Lower(n))

\* if extension and not path.name.lower().endswith(extension.lower()): continue
ExtensionRejects(e, p) == e # << >> /\ ~EndsWith(Lower(BaseName(p)), Lower(e))

\* Mutant of SizeRejects: the comparison turned round.
SizeRejectsLarger(size, m) == size > m

\* if size < min_size: continue
SizeRejects(size, m) == size < m

\* FileSearch(root).search(name, extension, min_size): matches = [] and the
\* walk is started.
SearchStart(n, e, m) ==
  /\ pc = "idle"
  /\ pc' = "search_loop"
  /\ op' = "search"
  /\ name' = n
  /\ extension' = e
  /\ min_size' = m
  /\ matches' = << >>
  /\ todo' = WalkPaths
  /\ UNCHANGED << fsVars, otherVars, max_results, heap, results, err >>

\* One path of the walk: the name and the extension are tested first, then the
\* file is stat-ed, then its size is tested; what passes is appended.
SearchNext ==
  /\ pc = "search_loop"
  /\ \E p \in NextPaths :
       /\ todo' = todo \ {p}
       /\ IF NameRejects(name, p) \/ ExtensionRejects(extension, p)
            THEN UNCHANGED << matches, pc, err >>
            ELSE LET st == Stat(p) IN
                 IF st.stat = "ok"
                   THEN /\ matches' = IF SizeRejects(st.size, min_size)
                                        THEN matches
                                        ELSE Append(matches, FileInfo(p, st.size))
                        /\ UNCHANGED << pc, err >>
                   ELSE IF StatCaught(st.stat)
                     THEN UNCHANGED << matches, pc, err >>
                     ELSE /\ pc' = "raised"
                          /\ err' = st.stat
                          /\ matches' = matches
  /\ UNCHANGED << fsVars, otherVars, max_results, op, heap, results, name, extension, min_size >>

\* The walk is exhausted: the matches are returned.
SearchReturn ==
  /\ pc = "search_loop"
  /\ todo = {}
  /\ IF WalkError = "none"
       THEN /\ pc' = "done"
            /\ err' = err
       ELSE /\ pc' = "raised"
            /\ err' = WalkError
  /\ UNCHANGED << fsVars, otherVars, max_results, op, todo, heap, results, searchVars >>

Next ==
  \/ \E K \in (-1..MaxK) \cup {DefaultMaxResults} : NewDiskScanner(K)
  \/ ScanStart
  \/ ScanNext
  \/ ScanTrim
  \/ ScanReturn
  \/ \E n \in NameInputs, e \in ExtensionInputs, m \in 0..MaxSize :
       SearchStart(n, e, m)
  \/ SearchNext
  \/ SearchReturn

Spec == Init /\ [][Next]_vars

\* ----------------------------------------------------------- delete_files
\* The sequences over S of length at most n.
SeqsUpTo(S, n) == UNION { [1..k -> S] : k \in 0..n }

\* The paths delete_files may be called with: files, present or not, and
\* directories.
DeletePool == PathPool \cup DirsOf(PathPool)

\* The rows selected in the file table: paths of files, each at most once.
Selections ==
  { sel \in SeqsUpTo(PathPool, MaxDelete) :
      \A i, j \in DOMAIN sel : sel[i] = sel[j] => i = j }

\* Mutant of Without: the files next to p in its directory go with it (the
\* parent removed instead of the file).
WithoutSiblings(fs, p) ==
  [q \in { x \in DOMAIN fs : DirOf(x) # DirOf(p) } |-> fs[q]]

\* The tree with the file p unlinked.
Without(fs, p) == [q \in (DOMAIN fs) \ {p} |-> fs[q]]

\* path.unlink(): "ok", or the exception raised. A directory (one that held a
\* file when delete_files was called; delete_files removes no directory)
\* raises IsADirectoryError, an OSError.
Unlink(p) ==
  IF p \in DOMAIN files
    THEN IF p \in undeletable THEN "PermissionError" ELSE "ok"
  ELSE IF p \in DirsOf(DOMAIN files0) THEN "OSError"
  ELSE "FileNotFoundError"

\* Mutant of DeleteCaught: the OSError of the except clause left out.
DeleteCaughtNoOSError(e) == e \in {"FileNotFoundError", "PermissionError"}

\* except (FileNotFoundError, PermissionError, OSError)
DeleteCaught(e) == e \in {"FileNotFoundError", "PermissionError", "OSError"}

\* A file tree for the deletion: every file can be stat-ed; some cannot be
\* unlinked.
InitDelete ==
  /\ rootExists \in BOOLEAN
  /\ files \in IF rootExists
                 THEN UNION { [S -> {[stat |-> "ok", size |-> 0]}] :
                              S \in SUBSET PathPool }
                 ELSE {EmptyFiles}
  /\ unlistable = {}
  /\ undeletable \in SUBSET DOMAIN files
  /\ max_results = DefaultMaxResults
  /\ pc = "idle"
  /\ op = "none"
  /\ todo = {}
  /\ heap = {}
  /\ results = << >>
  /\ name = << >>
  /\ extension = << >>
  /\ min_size = 0
  /\ matches = << >>
  /\ err = "none"
  /\ paths = << >>
  /\ di = 0
  /\ removed = << >>
  /\ files0 = EmptyFiles
  /\ confirmed = FALSE
  /\ walked = << >>
  /\ RestIdle

scanVars == << max_results, todo, heap, results >>

\* delete_files(ps): removed = [].
DeleteFiles(ps) ==
  /\ pc = "idle"
  /\ pc' = "delete_loop"
  /\ op' = "delete"
  /\ paths' = ps
  /\ di' = 0
  /\ removed' = << >>
  /\ files0' = files
  /\ UNCHANGED << fsVars, undeletable, confirmed, walked, restVars, scanVars,
                  searchVars, err >>

\* The click on "Delete Selected Files": delete_selected_files calls
\* delete_files(self._selected_file_paths()) as its first statement; nothing
\* asks the user before.
DeleteSelectedFiles(sel) ==
  /\ pc = "idle"
  /\ pc' = "delete_loop"
  /\ op' = "delete_selected"
  /\ paths' = sel
  /\ di' = 0
  /\ removed' = << >>
  /\ files0' = files
  /\ UNCHANGED << fsVars, undeletable, confirmed, walked, restVars, scanVars,
                  searchVars, err >>

\* Mutant of DeleteNext: the loop is left at the first failure.
DeleteNextStopsAtFailure ==
  /\ pc = "delete_loop"
  /\ di < Len(paths)
  /\ LET p == paths[di + 1] IN
       IF Unlink(p) = "ok"
         THEN /\ files' = Without(files, p)
              /\ removed' = Append(removed, p)
              /\ di' = di + 1
         ELSE /\ di' = Len(paths)
              /\ UNCHANGED << files, removed >>
  /\ UNCHANGED << rootExists, unlistable, undeletable, paths, files0, confirmed,
                  walked, restVars, pc, op, err, scanVars, searchVars >>

\* One path of the loop: unlink it and append it to removed, or log the
\* failure and go on.
DeleteNext ==
  /\ pc = "delete_loop"
  /\ di < Len(paths)
  /\ LET p == paths[di + 1]
         r == Unlink(p)
     IN  IF r = "ok"
           THEN /\ files' = Without(files, p)
                /\ removed' = Append(removed, p)
                /\ di' = di + 1
                /\ UNCHANGED << pc, err >>
           ELSE IF DeleteCaught(r)
             THEN /\ di' = di + 1
                  /\ UNCHANGED << files, removed, pc, err >>
             ELSE /\ pc' = "raised"
                  /\ err' = r
                  /\ UNCHANGED << files, removed, di >>
  /\ UNCHANGED << rootExists, unlistable, undeletable, paths, files0, confirmed,
                  walked, restVars, op, scanVars, searchVars >>

\* return removed. The button's handler goes on: it shows the count and calls
\* search_files(), a search with what the three input widgets hold.
DeleteReturn ==
  /\ pc = "delete_loop"
  /\ di = Len(paths)
  /\ IF op = "delete"
       THEN /\ pc' = "done"
            /\ UNCHANGED << todo, matches >>
       ELSE /\ pc' = "search_loop"
            /\ todo' = WalkPaths
            /\ matches' = << >>
  /\ UNCHANGED << fsVars, otherVars, op, max_results, heap, results,
                  name, extension, min_size, err >>

NextDelete ==
  \/ \E ps \in SeqsUpTo(DeletePool, MaxDelete) : DeleteFiles(ps)
  \/ \E sel \in Selections : DeleteSelectedFiles(sel)
  \/ DeleteNext
  \/ DeleteReturn
  \/ SearchNext
  \/ SearchReturn

SpecDelete == InitDelete /\ [][NextDelete]_vars

\* -------------------------------------------------- the walk on its own
WalkPool == { AllPaths[i] : i \in 1..Min(MaxWalkPaths, Len(AllPaths)) }

\* A file tree for the walk: files in the root and in two directories, any of
\* which may refuse to be listed.
InitWalk ==
  /\ rootExists \in BOOLEAN
  /\ files \in IF rootExists
                 THEN UNION { [S -> {[stat |-> "ok", size |-> 0]}] :
                              S \in SUBSET WalkPool }
                 ELSE {EmptyFiles}
  /\ unlistable \in SUBSET DirsOf(DOMAIN files)
  /\ DeleteIdle
  /\ RestIdle
  /\ walked = << >>
  /\ max_results = DefaultMaxResults
  /\ pc = "idle"
  /\ op = "none"
  /\ todo = {}
  /\ heap = {}
  /\ results = << >>
  /\ name = << >>
  /\ extension = << >>
  /\ min_size = 0
  /\ matches = << >>
  /\ err = "none"

\* self._walk_paths() is called: the generator is created.
WalkStart ==
  /\ pc = "idle"
  /\ pc' = "walk_loop"
  /\ op' = "walk"
  /\ todo' = WalkPaths
  /\ walked' = << >>
  /\ UNCHANGED << fsVars, deleteVars, restVars, max_results, heap, results,
                  searchVars, err >>

\* yield Path(dirpath) / filename
WalkYield ==
  /\ pc = "walk_loop"
  /\ \E p \in NextPaths :
       /\ walked' = Append(walked, p)
       /\ todo' = todo \ {p}
  /\ UNCHANGED << fsVars, deleteVars, restVars, max_results, pc, op, heap,
                  results, searchVars, err >>

\* os.walk has no directory left: the generator ends.
WalkEnd ==
  /\ pc = "walk_loop"
  /\ todo = {}
  /\ IF WalkError = "none"
       THEN pc' = "done" /\ err' = err
       ELSE pc' = "raised" /\ err' = WalkError
  /\ UNCHANGED << fsVars, otherVars, max_results, op, todo, heap, results,
                  searchVars >>

NextWalk == WalkStart \/ WalkYield \/ WalkEnd

SpecWalk == InitWalk /\ [][NextWalk]_vars

\* ------------------------------------------------------- the second call
\* The call has returned and is made once more, with the same arguments and
\* on the same file tree: scanner.scan() again, or search(...) again.
CallAgain ==
  /\ pc = "done"
  /\ calls = 1
  /\ calls' = 2
  /\ IF op = "scan"
       THEN /\ prev_results' = results
            /\ pc' = "ready"
            /\ UNCHANGED << prev_matches, matches, todo >>
       ELSE /\ prev_matches' = { matches[i] : i \in DOMAIN matches }
            /\ pc' = "search_loop"
            /\ matches' = << >>
            /\ todo' = WalkPaths
            /\ UNCHANGED prev_results
  /\ UNCHANGED << fsVars, deleteVars, walked, scan2Vars, appVars, max_results, op, heap,
                  results, name, extension, min_size, err >>

NextRepeat ==
  \/ \E K \in (-1..MaxK) \cup {DefaultMaxResults} : NewDiskScanner(K)
  \/ ScanStart
  \/ ScanNext
  \/ ScanTrim
  \/ ScanReturn
  \/ \E n \in NameInputs, e \in ExtensionInputs, m \in 0..MaxSize :
       SearchStart(n, e, m)
  \/ SearchNext
  \/ SearchReturn
  \/ CallAgain

SpecRepeat == Init /\ [][NextRepeat]_vars

\* ------------------------------------------------------------ termination
\* The walk, a scan or a search is called, and the thread that runs the call
\* keeps running it: a loop that can take a step does take it.
NextLive ==
  \/ \E K \in (-1..MaxK) \cup {DefaultMaxResults} : NewDiskScanner(K)
  \/ ScanStart
  \/ ScanNext
  \/ ScanTrim
  \/ ScanReturn
  \/ \E n \in NameInputs, e \in ExtensionInputs, m \in 0..MaxSize :
       SearchStart(n, e, m)
  \/ SearchNext
  \/ SearchReturn
  \/ WalkStart
  \/ WalkYield
  \/ WalkEnd

Running ==
  ScanNext \/ ScanTrim \/ ScanReturn \/ SearchNext \/ SearchReturn \/
  WalkYield \/ WalkEnd

SpecLive == Init /\ [][NextLive]_vars /\ WF_vars(Running)

\* ------------------------------------------ files removed during a call
\* A file tree whose files can all be stat-ed; files0 keeps the tree as it is
\* when the call starts.
InitRace ==
  /\ rootExists \in BOOLEAN
  /\ files \in IF rootExists
                 THEN UNION { [S -> [stat : {"ok"}, size : 0..MaxSize]] :
                              S \in SUBSET PathPool }
                 ELSE {EmptyFiles}
  /\ unlistable = {}
  /\ undeletable = {}
  /\ paths = << >>
  /\ di = 0
  /\ removed = << >>
  /\ files0 = files
  /\ confirmed = FALSE
  /\ RestIdle
  /\ walked = << >>
  /\ max_results = DefaultMaxResults
  /\ pc = "idle"
  /\ op = "none"
  /\ todo = {}
  /\ heap = {}
  /\ results = << >>
  /\ name = << >>
  /\ extension = << >>
  /\ min_size = 0
  /\ matches = << >>
  /\ err = "none"

\* While a scan or a search is under way, path.unlink() of delete_files on
\* another thread, or another process, removes a file. The walk may or may not
\* have listed the file already; a file not yet listed is not yielded, which
\* gives the result of a file that is yielded and whose stat raises
\* FileNotFoundError, so the walk keeps it.
RemoveFile(p) ==
  /\ pc \in {"scan_loop", "scan_pushed", "search_loop"}
  /\ p \in DOMAIN files
  /\ files' = Without(files, p)
  /\ UNCHANGED << rootExists, unlistable, undeletable, paths, di, removed,
                  files0, confirmed, walked, restVars, max_results, pc, op,
                  todo, heap, results, searchVars, err >>

NextRace ==
  \/ \E K \in (-1..MaxK) \cup {DefaultMaxResults} : NewDiskScanner(K)
  \/ ScanStart
  \/ ScanNext
  \/ ScanTrim
  \/ ScanReturn
  \/ \E n \in NameInputs, e \in ExtensionInputs, m \in 0..MaxSize :
       SearchStart(n, e, m)
  \/ SearchNext
  \/ SearchReturn
  \/ \E p \in DOMAIN files : RemoveFile(p)

SpecRace == InitRace /\ [][NextRace]_vars

\* ------------------------------------------------------ two scans at once
ConcPool == { AllPaths[i] : i \in 1..Min(MaxConcPaths, Len(AllPaths)) }

\* A file tree two scanners scan at the same time.
InitConc ==
  /\ rootExists \in BOOLEAN
  /\ files \in IF rootExists
                 THEN UNION { [S -> FileStates] : S \in SUBSET ConcPool }
                 ELSE {EmptyFiles}
  /\ unlistable \in SUBSET DirsOf(DOMAIN files)
  /\ DeleteIdle
  /\ RestIdle
  /\ walked = << >>
  /\ max_results = DefaultMaxResults
  /\ pc = "idle"
  /\ op = "none"
  /\ todo = {}
  /\ heap = {}
  /\ results = << >>
  /\ name = << >>
  /\ extension = << >>
  /\ min_size = 0
  /\ matches = << >>
  /\ err = "none"

scan1Vars == << max_results, pc, op, todo, heap, results, err >>

\* The paths the second scanner's generator may yield next (NextPaths, for its
\* own walk).
NextPaths2 ==
  LET came == WalkPaths \ todo2
      started == { DirOf(p) : p \in came } \cap { DirOf(p) : p \in todo2 }
  IN  { p \in todo2 :
          /\ started # {} => DirOf(p) \in started
          /\ \A q \in todo2 : Len(DirOf(q)) >= Len(DirOf(p)) }

\* DiskScanner(root, K).scan() on another thread: its own heap = [] and its
\* own walk.
Scan2Start(K) ==
  /\ pc2 = "idle"
  /\ pc2' = "scan_loop"
  /\ max_results2' = K
  /\ heap2' = {}
  /\ todo2' = WalkPaths
  /\ UNCHANGED << fsVars, deleteVars, walked, repeatVars, appVars, scan1Vars, searchVars,
                  results2 >>

\* Mutant of Scan2Next: the heap is shared by the scanners (a class or module
\* attribute), so the second scanner pushes into the heap of the first.
Scan2NextSharedHeap ==
  /\ pc2 = "scan_loop"
  /\ \E p \in NextPaths2 :
       LET st == Stat(p) IN
       /\ todo2' = todo2 \ {p}
       /\ IF st.stat = "ok"
            THEN /\ heap' = HeapPush(heap, <<st.size, p>>)
                 /\ pc2' = "scan_pushed"
            ELSE IF StatCaught(st.stat)
              THEN UNCHANGED << heap, pc2 >>
              ELSE /\ pc2' = "raised"
                   /\ heap' = heap
  /\ UNCHANGED << fsVars, deleteVars, walked, repeatVars, appVars, max_results, pc, op,
                  todo, results, err, searchVars, max_results2, heap2, results2 >>

\* The second scanner's ScanNext.
Scan2Next ==
  /\ pc2 = "scan_loop"
  /\ \E p \in NextPaths2 :
       LET st == Stat(p) IN
       /\ todo2' = todo2 \ {p}
       /\ IF st.stat = "ok"
            THEN /\ heap2' = HeapPush(heap2, <<st.size, p>>)
                 /\ pc2' = "scan_pushed"
            ELSE IF StatCaught(st.stat)
              THEN UNCHANGED << heap2, pc2 >>
              ELSE /\ pc2' = "raised"
                   /\ heap2' = heap2
  /\ UNCHANGED << fsVars, deleteVars, walked, repeatVars, appVars, scan1Vars, searchVars,
                  max_results2, results2 >>

\* The second scanner's ScanTrim.
Scan2Trim ==
  /\ pc2 = "scan_pushed"
  /\ heap2' = IF TrimNeeded(heap2, max_results2) THEN HeapPop(heap2) ELSE heap2
  /\ pc2' = "scan_loop"
  /\ UNCHANGED << fsVars, deleteVars, walked, repeatVars, appVars, scan1Vars, searchVars,
                  max_results2, todo2, results2 >>

\* The second scanner's ScanReturn.
Scan2Return ==
  /\ pc2 = "scan_loop"
  /\ todo2 = {}
  /\ IF WalkError = "none"
       THEN /\ results2' = ToFileInfos(SortedDesc(heap2))
            /\ pc2' = "done"
       ELSE /\ pc2' = "raised"
            /\ results2' = results2
  /\ UNCHANGED << fsVars, deleteVars, walked, repeatVars, appVars, scan1Vars, searchVars,
                  max_results2, todo2, heap2 >>

\* The steps of the two scans interleave in any way.
NextConc ==
  \/ \E K \in 0..MaxK : NewDiskScanner(K)
  \/ ScanStart
  \/ ScanNext
  \/ ScanTrim
  \/ ScanReturn
  \/ \E K \in 0..MaxK : Scan2Start(K)
  \/ Scan2Next
  \/ Scan2Trim
  \/ Scan2Return

SpecConc == InitConc /\ [][NextConc]_vars

\* --------------------------------------------- monitor.HistoricalSeries
\* The state of the file manager while another part of the application is
\* looked at: nothing is called, on an empty tree.
FileManagerIdle ==
  /\ rootExists = TRUE
  /\ files = EmptyFiles
  /\ unlistable = {}
  /\ DeleteIdle
  /\ walked = << >>
  /\ calls = 1
  /\ prev_results = << >>
  /\ prev_matches = {}
  /\ max_results2 = DefaultMaxResults
  /\ pc2 = "idle"
  /\ todo2 = {}
  /\ heap2 = {}
  /\ results2 = << >>
  /\ max_results = DefaultMaxResults
  /\ pc = "idle"
  /\ op = "none"
  /\ todo = {}
  /\ heap = {}
  /\ results = << >>
  /\ name = << >>
  /\ extension = << >>
  /\ min_size = 0
  /\ matches = << >>
  /\ err = "none"

fileManagerVars ==
  << rootExists, files, unlistable, max_results, pc, op, todo, heap, results,
     name, extension, min_size, matches, err, deleteVars, walked, repeatVars,
     scan2Vars >>

\* Mutant of DequeAppend: a full deque refuses the new value and keeps the
\* oldest ones.
DequeAppendKeepsOldest(d, v, n) == IF Len(d) >= n THEN d ELSE Append(d, v)

\* deque(maxlen=n).append(v): the value goes to the right end, and a deque
\* that is then longer than maxlen drops its leftmost value.
DequeAppend(d, v, n) ==
  LET a == Append(d, v) IN IF Len(a) > n THEN Tail(a) ELSE a

notSeriesVars == << fileManagerVars, configVars, wirelessVars, scheduleVars,
     logVars >>

\* HistoricalSeries(n): __post_init__ makes values = deque(maxlen=n).
InitSeries ==
  /\ FileManagerIdle
  /\ LogsIdle
  /\ ConfigIdle
  /\ WirelessIdle
  /\ ScheduleIdle
  /\ maxlen \in 0..MaxLen
  /\ values = << >>
  /\ appended = << >>

\* HistoricalSeries.append(value)
SeriesAppend(v) ==
  /\ Len(appended) < MaxAppends
  /\ values' = DequeAppend(values, v, maxlen)
  /\ appended' = Append(appended, v)
  /\ UNCHANGED << notSeriesVars, maxlen >>

NextSeries == \E v \in 0..MaxValue : SeriesAppend(v)

SpecSeries == InitSeries /\ [][NextSeries]_vars

\* ------------------------------------------------ the schedule configuration
\* The keys of a configuration, in the order the dict holds them.
ConfigKeys == << "auto_cleanup", "dark_mode", "tuneup_interval" >>

\* The keys of the configurations that are saved and loaded on their own.
RoundTripKeys == { "auto_cleanup", "tuneup_interval" }

\* A Python value of a configuration: a bool or an int, with its type.
PyBool(b) == [kind |-> "bool", val |-> b]
PyInt(n) == [kind |-> "int", val |-> n]

\* The values of a flat configuration: booleans and integers.
ConfigValues == { PyBool(b) : b \in BOOLEAN } \cup { PyInt(n) : n \in -1..MaxInt }

\* The flat configurations: some of the keys, each with a value.
Configs == UNION { [S -> ConfigValues] : S \in SUBSET RoundTripKeys }

DigitChars == << "0", "1", "2", "3", "4", "5", "6", "7", "8", "9" >>

\* Mutant of Digits: only the last digit is written.
DigitsLastOnly(n) == << DigitChars[(n % 10) + 1] >>

\* The decimal digits of n >= 0, as json.dumps writes an int.
RECURSIVE Digits(_)
Digits(n) ==
  IF n < 10
    THEN << DigitChars[n + 1] >>
    ELSE Digits(n \div 10) \o << DigitChars[(n % 10) + 1] >>

\* json.dumps of one value: true, false, or the decimal number.
DumpValue(x) ==
  IF x.kind = "bool"
    THEN [t |-> "literal", v |-> IF x.val THEN "true" ELSE "false"]
    ELSE [t |-> "number",
          v |-> IF x.val < 0 THEN << "-" >> \o Digits(0 - x.val)
                ELSE Digits(x.val)]

Punct(c) == [t |-> "punct", v |-> c]

\* The members of the object for the keys ks[i..], separated by commas.
RECURSIVE DumpMembers(_, _, _)
DumpMembers(c, ks, i) ==
  IF i > Len(ks) THEN << >>
  ELSE IF ks[i] \notin DOMAIN c THEN DumpMembers(c, ks, i + 1)
  ELSE LET rest == DumpMembers(c, ks, i + 1)
       IN  << [t |-> "string", v |-> ks[i]], Punct(":"), DumpValue(c[ks[i]]) >>
             \o (IF rest = << >> THEN << >> ELSE << Punct(",") >> \o rest)

\* json.dumps(config, indent=2), as the tokens of the text (the white space
\* between tokens is left out).
Dumps(c) == << Punct("{") >> \o DumpMembers(c, ConfigKeys, 1) \o << Punct("}") >>

\* The integer a sequence of digits stands for.
RECURSIVE ParseDigits(_)
ParseDigits(ds) ==
  IF Len(ds) = 0 THEN 0
  ELSE 10 * ParseDigits(SubSeq(ds, 1, Len(ds) - 1))
         + (CHOOSE d \in 0..9 : DigitChars[d + 1] = ds[Len(ds)])

ParseNumber(ds) ==
  IF ds[1] = "-" THEN 0 - ParseDigits(Tail(ds)) ELSE ParseDigits(ds)

IsPunct(tok, c) == tok.t = "punct" /\ tok.v = c

IsValue(tok) == tok.t \in {"literal", "number"}

ParseValue(tok) ==
  IF tok.t = "literal"
    THEN PyBool(tok.v = "true")
    ELSE PyInt(ParseNumber(tok.v))

\* The JSON decoder inside an object, at token i, with the members read so far:
\* a key, a colon, a value, then a comma and more members or the closing brace
\* at the end of the text. A later member replaces an earlier one of its key.
RECURSIVE ParseMembers(_, _, _)
ParseMembers(text, i, acc) ==
  IF i + 3 > Len(text) THEN [ok |-> FALSE, value |-> EmptyDict]
  ELSE IF ~(text[i].t = "string" /\ IsPunct(text[i + 1], ":")
              /\ IsValue(text[i + 2]))
    THEN [ok |-> FALSE, value |-> EmptyDict]
  ELSE LET d == (text[i].v :> ParseValue(text[i + 2])) @@ acc IN
       IF IsPunct(text[i + 3], "}")
         THEN [ok |-> i + 3 = Len(text), value |-> d]
       ELSE IF IsPunct(text[i + 3], ",")
         THEN ParseMembers(text, i + 4, d)
       ELSE [ok |-> FALSE, value |-> EmptyDict]

\* json.loads(text) of a text that holds an object: ok and the dict, or not ok
\* (JSONDecodeError).
Loads(text) ==
  IF Len(text) < 2 \/ ~IsPunct(text[1], "{")
    THEN [ok |-> FALSE, value |-> EmptyDict]
  ELSE IF IsPunct(text[2], "}")
    THEN [ok |-> Len(text) = 2, value |-> EmptyDict]
  ELSE ParseMembers(text, 2, EmptyDict)

notConfigVars == << fileManagerVars, seriesVars, wirelessVars, scheduleVars,
     logVars >>

\* Nothing saved or loaded yet: schedule.json does not exist.
InitConfig ==
  /\ FileManagerIdle
  /\ LogsIdle
  /\ SeriesIdle
  /\ WirelessIdle
  /\ ScheduleIdle
  /\ ConfigIdle

\* What load_schedule_config returns for the file as it is.
LoadResult(file) ==
  IF file = NoFile THEN EmptyDict
  ELSE IF Loads(file).ok THEN Loads(file).value
  ELSE EmptyDict

\* save_schedule_config(c, path): path.write_text(json.dumps(c, indent=2)).
\* One configuration is saved, then loaded.
SaveScheduleConfig(c) ==
  /\ cfg_pc = "start"
  /\ schedule_file' = Dumps(c)
  /\ config' = c
  /\ cfg_pc' = "saved"
  /\ UNCHANGED << notConfigVars, loaded >>

\* load_schedule_config(path): {} when the file does not exist or does not
\* decode, else json.loads of its text.
LoadScheduleConfig ==
  /\ cfg_pc # "loaded"
  /\ loaded' = LoadResult(schedule_file)
  /\ cfg_pc' = "loaded"
  /\ UNCHANGED << notConfigVars, schedule_file, config >>

NextConfig ==
  \/ \E c \in Configs : SaveScheduleConfig(c)
  \/ LoadScheduleConfig

SpecConfig == InitConfig /\ [][NextConfig]_vars

\* ------------------------------------------------------ the wireless page
\* _update_wireless_status: the three labels, from the flags as the handler
\* has just set them.
UpdateWirelessStatus(air, wifi, bt, cast) ==
  /\ wifi_status_label' = IF air THEN "Airplane mode" ELSE StateText(wifi)
  /\ bluetooth_status_label' = IF air THEN "Airplane mode" ELSE StateText(bt)
  /\ casting_status_label' = IF air THEN "Airplane mode" ELSE StateText(cast)

\* Mutant of ToggleAirplaneMode: the three check boxes are left enabled.
ToggleAirplaneModeKeepsEnabled(state) ==
  LET air == state = QtChecked IN
  /\ airplane_mode' = air
  /\ wifi_toggle' = CheckBox(IF air THEN FALSE ELSE wifi_toggle.checked, TRUE)
  /\ bluetooth_toggle' =
       CheckBox(IF air THEN FALSE ELSE bluetooth_toggle.checked, TRUE)
  /\ casting_toggle' =
       CheckBox(IF air THEN FALSE ELSE casting_toggle.checked, TRUE)
  /\ wifi_enabled' = IF air THEN FALSE ELSE wifi_enabled
  /\ bluetooth_enabled' = IF air THEN FALSE ELSE bluetooth_enabled
  /\ casting_enabled' = IF air THEN FALSE ELSE casting_enabled
  /\ UpdateWirelessStatus(air, wifi_enabled', bluetooth_enabled',
                          casting_enabled')

\* toggle_airplane_mode(state). setChecked(False) on a checked box emits its
\* stateChanged, whose handler sets the flag to False and updates the labels;
\* the handler then sets the three flags to False itself and updates the labels
\* once more.
ToggleAirplaneMode(state) ==
  LET air == state = QtChecked IN
  /\ airplane_mode' = air
  /\ wifi_toggle' = CheckBox(IF air THEN FALSE ELSE wifi_toggle.checked, ~air)
  /\ bluetooth_toggle' =
       CheckBox(IF air THEN FALSE ELSE bluetooth_toggle.checked, ~air)
  /\ casting_toggle' =
       CheckBox(IF air THEN FALSE ELSE casting_toggle.checked, ~air)
  /\ wifi_enabled' = IF air THEN FALSE ELSE wifi_enabled
  /\ bluetooth_enabled' = IF air THEN FALSE ELSE bluetooth_enabled
  /\ casting_enabled' = IF air THEN FALSE ELSE casting_enabled
  /\ UpdateWirelessStatus(air, wifi_enabled', bluetooth_enabled',
                          casting_enabled')

\* toggle_wifi(state)
ToggleWifi(state) ==
  /\ wifi_enabled' = (state = QtChecked)
  /\ UpdateWirelessStatus(airplane_mode, wifi_enabled', bluetooth_enabled,
                          casting_enabled)

\* toggle_bluetooth(state)
ToggleBluetooth(state) ==
  /\ bluetooth_enabled' = (state = QtChecked)
  /\ UpdateWirelessStatus(airplane_mode, wifi_enabled, bluetooth_enabled',
                          casting_enabled)

\* toggle_casting(state)
ToggleCasting(state) ==
  /\ casting_enabled' = (state = QtChecked)
  /\ UpdateWirelessStatus(airplane_mode, wifi_enabled, bluetooth_enabled,
                          casting_enabled')

\* The state a click gives a check box, as stateChanged passes it.
Clicked(box) == IF box.checked THEN QtUnchecked ELSE QtChecked

notWirelessVars == << fileManagerVars, seriesVars, configVars, scheduleVars,
     logVars >>

InitWireless ==
  /\ FileManagerIdle
  /\ LogsIdle
  /\ SeriesIdle
  /\ ConfigIdle
  /\ ScheduleIdle
  /\ WirelessIdle

\* The user clicks "Airplane Mode": the box changes and emits stateChanged.
ClickAirplane ==
  /\ events < MaxEvents
  /\ events' = events + 1
  /\ airplane_toggle.enabled
  /\ airplane_toggle' = [airplane_toggle EXCEPT !.checked = ~@]
  /\ ToggleAirplaneMode(Clicked(airplane_toggle))
  /\ prior' = IF Clicked(airplane_toggle) = QtChecked
                THEN << wifi_enabled, bluetooth_enabled, casting_enabled >>
                ELSE prior
  /\ UNCHANGED notWirelessVars

\* The user clicks "Wi-Fi"; a disabled box takes no click.
ClickWifi ==
  /\ events < MaxEvents
  /\ events' = events + 1
  /\ wifi_toggle.enabled
  /\ wifi_toggle' = [wifi_toggle EXCEPT !.checked = ~@]
  /\ ToggleWifi(Clicked(wifi_toggle))
  /\ UNCHANGED << notWirelessVars, airplane_mode, bluetooth_enabled,
                  casting_enabled, airplane_toggle, bluetooth_toggle,
                  casting_toggle, prior >>

\* The user clicks "Bluetooth".
ClickBluetooth ==
  /\ events < MaxEvents
  /\ events' = events + 1
  /\ bluetooth_toggle.enabled
  /\ bluetooth_toggle' = [bluetooth_toggle EXCEPT !.checked = ~@]
  /\ ToggleBluetooth(Clicked(bluetooth_toggle))
  /\ UNCHANGED << notWirelessVars, airplane_mode, wifi_enabled,
                  casting_enabled, airplane_toggle, wifi_toggle,
                  casting_toggle, prior >>

\* The user clicks "Casting".
ClickCasting ==
  /\ events < MaxEvents
  /\ events' = events + 1
  /\ casting_toggle.enabled
  /\ casting_toggle' = [casting_toggle EXCEPT !.checked = ~@]
  /\ ToggleCasting(Clicked(casting_toggle))
  /\ UNCHANGED << notWirelessVars, airplane_mode, wifi_enabled,
                  bluetooth_enabled, airplane_toggle, wifi_toggle,
                  bluetooth_toggle, prior >>

NextWireless == ClickAirplane \/ ClickWifi \/ ClickBluetooth \/ ClickCasting

SpecWireless == InitWireless /\ [][NextWireless]_vars

\* ------------------------------------------- the schedule of MainWindow
\* dict.get(k, default)
Get(c, k, default) == IF k \in DOMAIN c THEN c[k] ELSE default

\* int(x) of a bool or an int.
IntOf(x) == IF x.kind = "bool" THEN (IF x.val THEN 1 ELSE 0) ELSE x.val

\* The truth value of a bool or an int.
Truthy(x) == IF x.kind = "bool" THEN x.val ELSE x.val # 0

\* schedule_spin.setRange(0, 1440)
SpinMinimum == 0
SpinMaximum == 1440

\* QSpinBox.setValue(v): the value is brought into the range.
SpinSetValue(v) == Max(SpinMinimum, Min(SpinMaximum, v))

\* int(self.schedule_config.get("tuneup_interval", 0))
ScheduleInterval(c) == IntOf(Get(c, "tuneup_interval", PyInt(0)))

\* Mutant of AutoCleanupFlag: the check box is asked, not the configuration.
AutoCleanupFromCheckBox(c) == auto_cleanup_checkbox

\* self.schedule_config.get("auto_cleanup"), as the if of
\* execute_scheduled_tasks takes it: None (absent) counts as false.
AutoCleanupFlag(c) ==
  IF "auto_cleanup" \in DOMAIN c THEN Truthy(c["auto_cleanup"]) ELSE FALSE

\* Mutant of ResetScheduleTimer: the else branch with stop() left out.
ResetScheduleTimerNoStop(c) ==
  IF ScheduleInterval(c) > 0
    THEN /\ timer_active' = TRUE
         /\ timer_period' = ScheduleInterval(c) * 60 * 1000
    ELSE UNCHANGED << timer_active, timer_period >>

\* _reset_schedule_timer, for the configuration c the handler has just set:
\* start(interval * 60 * 1000) when interval > 0, else stop(), which leaves the
\* period as it is.
ResetScheduleTimer(c) ==
  IF ScheduleInterval(c) > 0
    THEN /\ timer_active' = TRUE
         /\ timer_period' = ScheduleInterval(c) * 60 * 1000
    ELSE /\ timer_active' = FALSE
         /\ timer_period' = timer_period

\* The names of the entries the temporary directories may hold.
TempPool == { "t1", "t2" }

\* The configurations schedule.json may hold when the application starts: any
\* of the three keys, the two flags booleans, the interval an integer.
StoredConfigs ==
  UNION { { c \in [S -> ConfigValues] :
              \A k \in S :
                IF k = "tuneup_interval"
                  THEN c[k].kind = "int" /\ c[k].val <= MaxInterval
                  ELSE c[k].kind = "bool" } :
          S \in SUBSET { ConfigKeys[i] : i \in DOMAIN ConfigKeys } }

notScheduleVars == << fileManagerVars, seriesVars, wirelessVars, logVars >>

\* Before the window is made: schedule.json is absent or holds a
\* configuration, and the temporary directories hold some entries.
InitSchedule ==
  /\ FileManagerIdle
  /\ LogsIdle
  /\ SeriesIdle
  /\ WirelessIdle
  /\ schedule_file \in {NoFile} \cup { Dumps(c) : c \in StoredConfigs }
  /\ config = EmptyDict
  /\ loaded = EmptyDict
  /\ cfg_pc = "start"
  /\ win = "closed"
  /\ schedule_config = EmptyDict
  /\ auto_cleanup_checkbox = FALSE
  /\ dark_mode_checkbox = FALSE
  /\ schedule_spin = 0
  /\ timer_active = FALSE
  /\ timer_period = 0
  /\ executions = 0
  /\ cleanups = 0
  /\ refreshes = 0
  /\ temp_entries \in SUBSET TempPool

\* MainWindow.__init__: the configuration is loaded, the settings page shows
\* it, and _init_timers sets the schedule timer by it.
WindowInit ==
  /\ win = "closed"
  /\ win' = "open"
  /\ loaded' = LoadResult(schedule_file)
  /\ cfg_pc' = "loaded"
  /\ schedule_config' = loaded'
  /\ auto_cleanup_checkbox' =
       Truthy(Get(schedule_config', "auto_cleanup", PyBool(FALSE)))
  /\ dark_mode_checkbox' =
       Truthy(Get(schedule_config', "dark_mode", PyBool(FALSE)))
  /\ schedule_spin' = SpinSetValue(ScheduleInterval(schedule_config'))
  /\ ResetScheduleTimer(schedule_config')
  /\ UNCHANGED << notScheduleVars, schedule_file, config, executions, cleanups,
                  refreshes, temp_entries >>

\* The user clicks "Enable automatic disk cleanup".
ClickAutoCleanup ==
  /\ win = "open"
  /\ auto_cleanup_checkbox' = ~auto_cleanup_checkbox
  /\ UNCHANGED << notScheduleVars, configVars, win, schedule_config,
                  dark_mode_checkbox, schedule_spin, timer_active,
                  timer_period, executions, cleanups, refreshes, temp_entries >>

\* The user clicks "Enable dark mode" (the palette is not modelled).
ClickDarkMode ==
  /\ win = "open"
  /\ dark_mode_checkbox' = ~dark_mode_checkbox
  /\ UNCHANGED << notScheduleVars, configVars, win, schedule_config,
                  auto_cleanup_checkbox, schedule_spin, timer_active,
                  timer_period, executions, cleanups, refreshes, temp_entries >>

\* The user sets the interval in the spin box.
EditSpin(v) ==
  /\ win = "open"
  /\ v # schedule_spin
  /\ schedule_spin' = SpinSetValue(v)
  /\ UNCHANGED << notScheduleVars, configVars, win, schedule_config,
                  auto_cleanup_checkbox, dark_mode_checkbox, timer_active,
                  timer_period, executions, cleanups, refreshes, temp_entries >>

\* save_schedule: the configuration is built from the three widgets, written
\* by save_schedule_config, and the timer is reset by it.
SaveSchedule ==
  /\ win = "open"
  /\ schedule_config' =
       ("auto_cleanup" :> PyBool(auto_cleanup_checkbox)) @@
       ("dark_mode" :> PyBool(dark_mode_checkbox)) @@
       ("tuneup_interval" :> PyInt(schedule_spin))
  /\ schedule_file' = Dumps(schedule_config')
  /\ config' = schedule_config'
  /\ cfg_pc' = "saved"
  /\ ResetScheduleTimer(schedule_config')
  /\ UNCHANGED << notScheduleVars, loaded, win, auto_cleanup_checkbox,
                  dark_mode_checkbox, schedule_spin, executions, cleanups,
                  refreshes, temp_entries >>

\* schedule_timer.timeout: execute_scheduled_tasks. clean_temp_files removes
\* the entries it can (a removal that raises is logged and skipped), then the
\* dashboard is refreshed.
ExecuteScheduledTasks ==
  /\ win = "open"
  /\ timer_active
  /\ executions < MaxExecs
  /\ executions' = executions + 1
  /\ IF AutoCleanupFlag(schedule_config)
       THEN /\ cleanups' = cleanups + 1
            /\ temp_entries' \in SUBSET temp_entries
       ELSE UNCHANGED << cleanups, temp_entries >>
  /\ refreshes' = refreshes + 1
  /\ UNCHANGED << notScheduleVars, configVars, win, schedule_config,
                  auto_cleanup_checkbox, dark_mode_checkbox, schedule_spin,
                  timer_active, timer_period >>

NextSchedule ==
  \/ WindowInit
  \/ ClickAutoCleanup
  \/ ClickDarkMode
  \/ \E v \in 0..MaxInterval : EditSpin(v)
  \/ SaveSchedule
  \/ ExecuteScheduledTasks

SpecSchedule == InitSchedule /\ [][NextSchedule]_vars

\* ------------------------------------------------------------- read_logs
\* The texts a line of a log file may hold.
LineTexts == { "x", "y" }

\* The states of a log file: it does not exist, read_text raises
\* PermissionError, or it holds some lines.
LogStates ==
  { AbsentLog, [state |-> "denied", lines |-> << >>] } \cup
  { [state |-> "ok", lines |-> l] : l \in SeqsUpTo(LineTexts, MaxLines) }

LineEntry(text) == [kind |-> "line", text |-> text]

\* f"Permission denied reading {log_file}: {exc}"
DeniedEntry == [kind |-> "denied", text |-> "Permission denied reading"]

\* "No log entries available. ..."
Placeholder == [kind |-> "placeholder", text |-> "No log entries available."]

\* The slice with a limit of 0 giving no line: the last min(n, len) lines for
\* every n >= 0. With it in the place of SliceLast, C30_AsStated holds.
SliceLastZeroEmpty(lines, n) ==
  SubSeq(lines, Max(Len(lines) - n, 0) + 1, Len(lines))

\* lines[-n:]. The slice starts at index -n: counted from the end when -n is
\* negative, and from the beginning when it is 0 or more, so lines[-0:] is
\* lines[0:], the whole list.
SliceLast(lines, n) ==
  IF n > 0 THEN SubSeq(lines, Max(Len(lines) - n, 0) + 1, Len(lines))
  ELSE SubSeq(lines, Min(0 - n, Len(lines)) + 1, Len(lines))

notLogVars ==
  << fileManagerVars, seriesVars, configVars, wirelessVars, scheduleVars >>

\* The log files are in any state; read_logs is not called yet.
InitLogs ==
  /\ FileManagerIdle
  /\ SeriesIdle
  /\ ConfigIdle
  /\ WirelessIdle
  /\ ScheduleIdle
  /\ log_files \in [1..MaxLogFiles -> LogStates]
  /\ limit = 0
  /\ entries = << >>
  /\ taken = [f \in 1..MaxLogFiles |-> << >>]
  /\ li = 0
  /\ log_pc = "idle"

\* read_logs(n): entries = [].
ReadLogs(n) ==
  /\ log_pc = "idle"
  /\ log_pc' = "loop"
  /\ limit' = n
  /\ entries' = << >>
  /\ li' = 0
  /\ UNCHANGED << notLogVars, log_files, taken >>

\* One file of LOG_FILES: skipped when it does not exist; the message when
\* reading it is denied; else the slice of its lines.
ReadLogsNext ==
  /\ log_pc = "loop"
  /\ li < MaxLogFiles
  /\ li' = li + 1
  /\ LET f == log_files[li + 1] IN
       IF f.state = "absent"
         THEN UNCHANGED << entries, taken >>
       ELSE IF f.state = "denied"
         THEN /\ entries' = Append(entries, DeniedEntry)
              /\ taken' = taken
       ELSE LET sl == SliceLast(f.lines, limit) IN
            /\ entries' = entries \o [i \in 1..Len(sl) |-> LineEntry(sl[i])]
            /\ taken' = [taken EXCEPT ![li + 1] = sl]
  /\ UNCHANGED << notLogVars, log_files, limit, log_pc >>

\* After the loop: the placeholder when nothing was collected; return entries.
ReadLogsReturn ==
  /\ log_pc = "loop"
  /\ li = MaxLogFiles
  /\ entries' = IF entries = << >> THEN << Placeholder >> ELSE entries
  /\ log_pc' = "done"
  /\ UNCHANGED << notLogVars, log_files, limit, taken, li >>

NextLogs ==
  \/ \E n \in 0..MaxLimit : ReadLogs(n)
  \/ ReadLogsNext
  \/ ReadLogsReturn

SpecLogs == InitLogs /\ [][NextLogs]_vars

\* =========================================================== scan: C1..C8
\* Every file below the root, readable or not.
AllFiles == DOMAIN files

\* The files whose size a scan or a search reads: yielded by the walk, and
\* stat succeeds.
ReadFiles == { p \in WalkPaths : files[p].stat = "ok" }

ScanDone == pc = "done" /\ op = "scan"
SearchDone == pc = "done" /\ op = "search"

\* How many entries of a list of FileInfo have size v.
CountInList(l, v) == Cardinality({ i \in DOMAIN l : l[i].size = v })

\* How many times v occurs among the k largest sizes of the files F: all the
\* files of size v, as far as the larger files leave room.
CountInLargest(F, k, v) ==
  Min(Cardinality({ p \in F : files[p].size = v }),
      Max(0, k - Cardinality({ p \in F : files[p].size > v })))

\* C1 as stated: for K >= 0 the sizes returned by scan are, as a multiset, the
\* K largest sizes among all the files under root.
C1_AsStated ==
  (ScanDone /\ max_results >= 0) =>
    \A v \in 0..MaxSize :
      CountInList(results, v) = CountInLargest(AllFiles, max_results, v)

\* C1 amended: for K >= 0 the sizes returned by scan are, as a multiset, the
\* K largest sizes among the files the walk yields and whose size could be
\* read (all of them when there are fewer than K).
C1_TopKSizes ==
  (ScanDone /\ max_results >= 0) =>
    \A v \in 0..MaxSize :
      CountInList(results, v) = CountInLargest(ReadFiles, max_results, v)

\* A scan that had to choose: more readable files than K, of different sizes.
C1_Witness ==
  /\ ScanDone
  /\ max_results >= 1
  /\ Cardinality(ReadFiles) > max_results
  /\ \E p, q \in ReadFiles : files[p].size < files[q].size
  /\ Len(results) = max_results

\* C2 as stated: the number of entries scan returns is min(K, number of files
\* under root).
C2_AsStated ==
  (ScanDone /\ max_results >= 0) =>
    Len(results) = Min(max_results, Cardinality(AllFiles))

\* C2 amended: the number of entries scan returns is min(K, number of files the
\* walk yields and whose size could be read) for K >= 0, and 0 for K < 0.
C2_ResultLength ==
  ScanDone => Len(results) = Min(Max(max_results, 0), Cardinality(ReadFiles))

\* A scan over a tree with a file whose size cannot be read, cut to K entries.
C2_Witness ==
  /\ ScanDone
  /\ max_results >= 1
  /\ Cardinality(ReadFiles) < Cardinality(AllFiles)
  /\ Cardinality(ReadFiles) > max_results
  /\ Len(results) = max_results

\* C3: the result of scan is sorted by size in non-increasing order.
C3_SortedDescending ==
  ScanDone =>
    \A i \in 1..(Len(results) - 1) : results[i].size >= results[i + 1].size

\* A result with two entries of different sizes.
C3_Witness ==
  /\ ScanDone
  /\ \E i \in 1..(Len(results) - 1) : results[i].size > results[i + 1].size

\* C4 as stated: at every step of a scan with bound K >= 0, the step between
\* the push and the pop included, the heap holds at most K entries.
C4_AsStated ==
  (op = "scan" /\ max_results >= 0) => Cardinality(heap) <= max_results

\* C4 amended: at every step of a scan the heap holds at most max(K, 0) + 1
\* entries, and at most max(K, 0) except between a push and the pop after it.
C4_HeapBound ==
  op = "scan" =>
    /\ Cardinality(heap) <= Max(max_results, 0) + 1
    /\ pc # "scan_pushed" => Cardinality(heap) <= Max(max_results, 0)

\* A full heap just after the push of one more candidate.
C4_Witness ==
  /\ pc = "scan_pushed"
  /\ max_results >= 1
  /\ Cardinality(heap) = max_results + 1

\* C5 as stated: in scan and in search a failing stat of a candidate, whatever
\* the reason, never leaves the call as an exception, and the candidate is not
\* in the result.
C5_AsStated ==
  /\ pc # "raised"
  /\ ScanDone => \A i \in DOMAIN results : files[results[i].path].stat = "ok"
  /\ SearchDone => \A i \in DOMAIN matches : files[matches[i].path].stat = "ok"

\* C6: scan with K = 0 returns an empty list, whatever lies under root.
C6_ZeroK == (ScanDone /\ max_results = 0) => results = << >>

\* A scan with K = 0 that read the size of a file.
C6_Witness == ScanDone /\ max_results = 0 /\ ReadFiles # {}

\* C7: when root does not exist, scan and search find the walk empty, raise
\* nothing and return an empty list.
C7_MissingRoot ==
  ~rootExists =>
    /\ pc # "raised"
    /\ pc \in {"scan_loop", "search_loop"} => todo = {}
    /\ pc = "done" => results = << >> /\ matches = << >>

\* A search with predicates that returned on a missing root.
C7_Witness ==
  ~rootExists /\ SearchDone /\ name # << >> /\ extension # << >>

\* A scan that returned on a missing root.
C7_WitnessScan == ~rootExists /\ ScanDone /\ max_results >= 1

\* C8 as stated: entries of equal size follow each other by ascending path.
C8_AsStated ==
  ScanDone =>
    \A i \in 1..(Len(results) - 1) :
      results[i].size = results[i + 1].size =>
        PathLess(results[i].path, results[i + 1].path)

\* C8 amended: entries of equal size follow each other by descending path:
\* for consecutive entries (a, b) with a.size = b.size, a.path > b.path.
C8_TiesByDescendingPath ==
  ScanDone =>
    \A i \in 1..(Len(results) - 1) :
      results[i].size = results[i + 1].size =>
        PathLess(results[i + 1].path, results[i].path)

\* A result with two consecutive entries of the same size.
C8_Witness ==
  /\ ScanDone
  /\ \E i \in 1..(Len(results) - 1) : results[i].size = results[i + 1].size

\* ======================================================== search: C9, C10
\* n, case folded, occurs in s at offset k.
FoldedAt(s, n, k) ==
  /\ k >= 0
  /\ k + Len(n) <= Len(s)
  /\ \A j \in 1..Len(n) : LowerChar(s[k + j]) = LowerChar(n[j])

\* The predicates of the running search, as the specification words them.
NameHolds(p) ==
  name = << >> \/ \E k \in 0..Len(BaseName(p)) : FoldedAt(BaseName(p), name, k)

ExtensionHolds(p) ==
  \/ extension = << >>
  \/ FoldedAt(BaseName(p), extension, Len(BaseName(p)) - Len(extension))

\* C9: every FileInfo search returns satisfies all the supplied predicates:
\* name is a case-insensitive substring of the base name, extension a
\* case-insensitive suffix of it, and size >= min_size.
C9_MatchesSatisfyPredicates ==
  op = "search" =>
    \A i \in DOMAIN matches :
      /\ NameHolds(matches[i].path)
      /\ ExtensionHolds(matches[i].path)
      /\ matches[i].size >= min_size

\* A search with the three predicates supplied that returned a file of exactly
\* min_size and left a readable file out.
C9_Witness ==
  /\ SearchDone
  /\ name # << >> /\ extension # << >> /\ min_size >= 1
  /\ \E i \in DOMAIN matches : matches[i].size = min_size
  /\ Len(matches) < Cardinality(ReadFiles)

\* The entries of the list of matches that are for path p.
EntriesFor(p) == { i \in DOMAIN matches : matches[i].path = p }

\* C10 as stated: search returns, exactly once each, every file under root
\* whose size can be read and that satisfies all the supplied predicates.
C10_AsStated ==
  SearchDone =>
    \A p \in AllFiles :
      (files[p].stat = "ok" /\ NameHolds(p) /\ ExtensionHolds(p)
         /\ files[p].size >= min_size)
        => Cardinality(EntriesFor(p)) = 1

\* C10 amended: search returns, exactly once each and with its size, every
\* file the walk yields (every file under root that is not below a directory
\* whose listing is denied) whose size can be read and that satisfies all the
\* supplied predicates; an empty name, an empty extension or min_size = 0
\* filters nothing.
C10_AllMatchesReturned ==
  SearchDone =>
    /\ \A p \in ReadFiles :
         (NameHolds(p) /\ ExtensionHolds(p) /\ files[p].size >= min_size)
           => /\ Cardinality(EntriesFor(p)) = 1
              /\ \A i \in EntriesFor(p) : matches[i].size = files[p].size
    /\ \A p \in AllFiles : Cardinality(EntriesFor(p)) <= 1
    /\ (name = << >> /\ extension = << >> /\ min_size = 0) =>
         { matches[i].path : i \in DOMAIN matches } = ReadFiles

\* A search by name that returned two files, one of which has the name only
\* up to case.
C10_Witness ==
  /\ SearchDone
  /\ name # << >>
  /\ Len(matches) >= 2
  /\ \E i \in DOMAIN matches : ~Contains(BaseName(matches[i].path), name)

\* ================================================= delete_files: C11..C13
Deleting == op \in {"delete", "delete_selected"}

\* delete_files has returned (the handler may be in its search).
DeleteReturned == Deleting /\ pc \notin {"delete_loop", "raised"}

\* Whether the unlink of the i-th path succeeds: the file was there when
\* delete_files was called, its unlink is not denied, and no earlier path of
\* the list is the same file.
Removable(i) ==
  /\ paths[i] \in DOMAIN files0
  /\ paths[i] \notin undeletable
  /\ \A j \in 1..(i - 1) : paths[j] # paths[i]

\* The first n input paths whose removal succeeds, in input order.
RECURSIVE RemovableAmong(_)
RemovableAmong(n) ==
  IF n = 0 THEN << >>
  ELSE IF Removable(n) THEN Append(RemovableAmong(n - 1), paths[n])
  ELSE RemovableAmong(n - 1)

\* C11: delete_files raises on no removal error, and returns exactly the input
\* paths whose removal succeeded, in the order of the input.
C11_RemovedInOrder ==
  Deleting =>
    /\ pc # "raised"
    /\ removed = RemovableAmong(di)
    /\ DeleteReturned => removed = RemovableAmong(Len(paths))

\* delete_files([p1, p2, p3]) with p2 missing has returned [p1, p3].
C11_Witness ==
  /\ op = "delete" /\ pc = "done"
  /\ Len(paths) = 3
  /\ paths[2] \notin DOMAIN files0
  /\ removed = << paths[1], paths[3] >>

\* C12: delete_files attempts every path of its input whatever happened to the
\* earlier ones: when it returns the loop has handled all the paths, and no
\* input path that could be removed is left.
C12_EveryPathAttempted ==
  DeleteReturned =>
    /\ di = Len(paths)
    /\ \A i \in DOMAIN paths :
         paths[i] \in DOMAIN files => paths[i] \in undeletable

\* The first removal was denied, the next path was a directory, and the last
\* path was removed all the same.
C12_Witness ==
  /\ op = "delete" /\ pc = "done"
  /\ Len(paths) = 3
  /\ paths[1] \in undeletable
  /\ paths[2] \in DirsOf(DOMAIN files0)
  /\ removed = << paths[3] >>

\* C13 as stated: every call of delete_files from the "Delete Selected Files"
\* action comes after the user has confirmed the deletion.
C13_AsStated == op = "delete_selected" => confirmed

\* ============================================================== walk: C14
\* How many times the walk yielded p.
TimesYielded(p) == Cardinality({ i \in DOMAIN walked : walked[i] = p })

\* p lies in or below a directory whose listing is denied.
BelowUnlistable(p) == \E i \in 1..(Len(p) - 1) : SubSeq(p, 1, i) \in unlistable

\* C14: the walk yields exactly once every file below root that is not below
\* a directory whose listing is denied, yields none of the files below such
\* a directory, and raises no error.
C14_WalkYieldsEachFileOnce ==
  op = "walk" =>
    /\ pc # "raised"
    /\ \A p \in DOMAIN files : TimesYielded(p) <= 1
    /\ pc = "done" =>
         \A p \in DOMAIN files :
           TimesYielded(p) = IF BelowUnlistable(p) THEN 0 ELSE 1

\* A finished walk that skipped a directory it could not list and yielded
\* the file of its sibling and a file of the root.
C14_Witness ==
  /\ op = "walk" /\ pc = "done"
  /\ \E p, q, r \in DOMAIN files :
       /\ BelowUnlistable(p)
       /\ Len(q) = 2 /\ TimesYielded(q) = 1 /\ DirOf(q) # DirOf(p)
       /\ Len(r) = 1 /\ TimesYielded(r) = 1

C16_SecondCallEqual ==
  calls = 2 =>
    /\ ScanDone => results = prev_results
    /\ SearchDone => { matches[i] : i \in DOMAIN matches } = prev_matches

\* A second scan that had to cut its result has returned.
C16_Witness ==
  /\ calls = 2
  /\ ScanDone /\ Len(results) >= 1 /\ Cardinality(ReadFiles) > Len(results)

\* A second search that matched a file has returned.
C16_WitnessSearch ==
  /\ calls = 2
  /\ SearchDone /\ matches # << >>

\* ==================================================== concurrency: C17
\* The <<size, path>> pairs of the files whose size a scan reads.
ReadTuples == { <<files[p].size, p>> : p \in ReadFiles }

\* The first k entries of a sequence (all of it when it is shorter).
Take(sq, k) == SubSeq(sq, 1, Min(Max(k, 0), Len(sq)))

\* What scan returns for the bound K when it runs alone on the file tree.
SoloResult(K) == ToFileInfos(Take(SortedDesc(ReadTuples), K))

\* A scan that runs alone returns SoloResult.
SoloResultIsScanResult == ScanDone => results = SoloResult(max_results)

\* C17: two scans whose steps interleave arbitrarily on an unchanged file tree
\* each return what they return when run alone.
C17_InterleavedScansIndependent ==
  /\ ScanDone => results = SoloResult(max_results)
  /\ pc2 = "done" => results2 = SoloResult(max_results2)

\* Both scans have returned, with different bounds, after their steps
\* interleaved: the second started while the first held a candidate.
C17_Witness ==
  /\ ScanDone /\ pc2 = "done"
  /\ max_results # max_results2
  /\ results # << >> /\ results2 # << >>
  /\ results # results2

\* ================================================== fewer than K files: C18
\* The paths of a list of FileInfo.
PathsOf(l) == { l[i].path : i \in DOMAIN l }

\* A list of FileInfo is in descending order of size.
SizesDescending(l) == \A i, j \in DOMAIN l : i < j => l[i].size >= l[j].size

\* C18 as stated: with fewer than K files under root, scan returns one entry for
\* every file under root, in descending order of size.
C18_AsStated ==
  (ScanDone /\ Cardinality(AllFiles) < max_results) =>
    /\ PathsOf(results) = AllFiles
    /\ Len(results) = Cardinality(AllFiles)
    /\ SizesDescending(results)

\* C18 amended: with fewer than K files that the walk yields and whose size
\* could be read, scan returns one entry for each of them, with its size, in
\* descending order of size; with no such file the result is empty.  A file
\* whose stat raises PermissionError or FileNotFoundError, or that lies below a
\* directory that cannot be listed, has no entry.
C18_FewerThanK ==
  (ScanDone /\ Cardinality(ReadFiles) < max_results) =>
    /\ PathsOf(results) = ReadFiles
    /\ Len(results) = Cardinality(ReadFiles)
    /\ \A i \in DOMAIN results : results[i].size = files[results[i].path].size
    /\ SizesDescending(results)
    /\ ReadFiles = {} => results = << >>

\* A scan of fewer than K readable files, two of them of different sizes, has
\* returned.
C18_Witness ==
  /\ ScanDone
  /\ Cardinality(ReadFiles) < max_results
  /\ \E p, q \in ReadFiles : files[p].size < files[q].size
  /\ Len(results) >= 2

\* ======================================================= loop invariant: C19
\* The <<size, path>> pairs pushed so far: the candidates the walk has yielded
\* and whose size was read.
SeenTuples ==
  { <<files[p].size, p>> : p \in { q \in WalkPaths \ todo : files[q].stat = "ok" } }

\* The entries of a sequence, as a set.
Range(sq) == { sq[i] : i \in DOMAIN sq }

\* C19: whenever scan is between two candidates (the push and the conditional
\* pop of the last one are done), the heap holds exactly the min(K, n) largest
\* of the n entries pushed so far (none when K < 0).
C19_LoopInvariant ==
  (op = "scan" /\ pc = "scan_loop") =>
    /\ heap = Range(Take(SortedDesc(SeenTuples), max_results))
    /\ Cardinality(heap) = Min(Max(max_results, 0), Cardinality(SeenTuples))
    /\ \A x \in heap : \A y \in SeenTuples \ heap : x[1] >= y[1]

\* In the middle of a scan: more candidates read than K, so an entry was
\* popped, and paths are still to come.
C19_Witness ==
  /\ op = "scan" /\ pc = "scan_loop"
  /\ todo # {}
  /\ max_results >= 1
  /\ Cardinality(SeenTuples) > max_results
  /\ \E x \in heap : \E y \in SeenTuples \ heap : x[1] > y[1]

\* ================================================= order independence: C20
\* C20: two scans of the same file tree with the same K, whose walks yield the
\* paths in orders chosen independently of each other, return the same list.
C20_OrderIndependent ==
  (ScanDone /\ pc2 = "done" /\ max_results = max_results2) =>
    results = results2

\* Two scans with the same K have returned, and files tie on size at the
\* cut-off: one of two files of equal size is returned, the other is not.
C20_Witness ==
  /\ ScanDone /\ pc2 = "done"
  /\ max_results = max_results2
  /\ \E p, q \in ReadFiles :
       /\ files[p].size = files[q].size
       /\ p \in PathsOf(results)
       /\ q \notin PathsOf(results)

\* ========================================================= termination: C21
\* A call of the walk, of scan or of search is under way.
InCall == pc \in {"scan_loop", "scan_pushed", "search_loop", "walk_loop"}

\* C21 as stated: every call of the walk, of scan and of search eventually
\* returns, after the full traversal (no path is left to yield).
C21_AsStated == InCall ~> (pc = "done" /\ todo = {})

\* What holds instead: every call ends; it returns after the full traversal, or
\* it is left by an exception before the traversal is complete.
C21_Terminates ==
  /\ InCall ~> (pc \in {"done", "raised"})
  /\ [](pc = "done" => todo = {})

\* ==================================== files removed during a call: C22
\* Every entry of a list of FileInfo carries the size its file had.
SizesAsRead(l) ==
  \A i \in DOMAIN l :
    /\ l[i].path \in DOMAIN files0
    /\ l[i].size = files0[l[i].path].size

\* C22: when files are removed while a scan or a search is under way, the call
\* does not raise, a path that is gone when its turn comes adds nothing to the
\* heap or to the matches, and every returned entry carries the size a
\* successful stat of its path read.
C22_RemovalDuringCall ==
  /\ [](pc # "raised")
  /\ [](ScanDone => SizesAsRead(results))
  /\ [](SearchDone => SizesAsRead(matches))
  /\ [][ \A p \in todo \ DOMAIN files :
           p \notin todo' => (heap' = heap /\ matches' = matches) ]_vars

\* A scan has returned some entries; a file that was removed during the scan
\* is not among them although the result had room for it.
C22_Witness ==
  /\ ScanDone
  /\ results # << >>
  /\ Len(results) < max_results
  /\ \E p \in DOMAIN files0 \ DOMAIN files : p \notin PathsOf(results)

\* A search has returned a match; a file that was removed during the search
\* and that passes the predicates is not among the matches.
C22_WitnessSearch ==
  /\ SearchDone
  /\ matches # << >>
  /\ \E p \in DOMAIN files0 \ DOMAIN files :
       /\ p \notin PathsOf(matches)
       /\ NameHolds(p) /\ ExtensionHolds(p)
       /\ files0[p].size >= min_size

\* ==================================================== HistoricalSeries: C23
\* list(series): __iter__ iterates the deque from its left end.
SeriesIter == values

\* The last n entries of a sequence (all of it when it is shorter).
LastOf(sq, n) == SubSeq(sq, Len(sq) - Min(n, Len(sq)) + 1, Len(sq))

\* C23: after any sequence of appends the series holds min(number of appends,
\* maxlen) values, the most recent ones, in the order they were appended.
C23_FixedLengthHistory ==
  /\ Len(SeriesIter) = Min(Len(appended), maxlen)
  /\ Len(SeriesIter) <= maxlen
  /\ SeriesIter = LastOf(appended, maxlen)

\* A series of two values to which more than two were appended, the dropped
\* one different from those kept.
C23_Witness ==
  /\ maxlen >= 2
  /\ Len(appended) > maxlen
  /\ appended[1] # appended[Len(appended)]
  /\ values[1] # values[Len(values)]

\* ====================================================== round trip: C24
\* C24: load_schedule_config called after save_schedule_config(c, path)
\* returns a configuration equal to c, for every flat configuration c.
C24_RoundTrip ==
  (cfg_pc = "loaded" /\ schedule_file # NoFile) => loaded = config

\* A configuration with a boolean and a number of two digits was saved and
\* loaded.
C24_Witness ==
  /\ cfg_pc = "loaded"
  /\ schedule_file # NoFile
  /\ DOMAIN config = {"auto_cleanup", "tuneup_interval"}
  /\ config["auto_cleanup"] = PyBool(TRUE)
  /\ config["tuneup_interval"] = PyInt(10)
  /\ loaded = config

\* ======================================== first K of the sorted pairs: C25
\* The <<size, path>> pair of an entry of the result.
PairOf(info) == << info.size, info.path >>

\* C25: for K >= 0, scan returns the first K elements of the list of all
\* (size, path) pairs of the files read, sorted in descending lexicographic
\* order: the result is strictly descending, it holds min(K, number of pairs)
\* of the pairs, and every pair left out is smaller than every pair returned;
\* hence of the files that tie on size at the cut-off, those of the greatest
\* paths are kept.
C25_FirstKOfSortedPairs ==
  (ScanDone /\ max_results >= 0) =>
    /\ \A i \in DOMAIN results : PairOf(results[i]) \in ReadTuples
    /\ \A i, j \in DOMAIN results :
         i < j => TupleLess(PairOf(results[j]), PairOf(results[i]))
    /\ Len(results) = Min(max_results, Cardinality(ReadTuples))
    /\ \A y \in ReadTuples \ { PairOf(results[i]) : i \in DOMAIN results } :
         \A i \in DOMAIN results :
           /\ TupleLess(y, PairOf(results[i]))
           /\ y[1] = results[i].size => PathLess(y[2], results[i].path)

\* A scan with K >= 1 has returned its K entries; the last of them ties on size
\* with a file that was left out.
C25_Witness ==
  /\ ScanDone
  /\ max_results >= 1
  /\ Len(results) = max_results
  /\ \E q \in ReadFiles :
       /\ q \notin PathsOf(results)
       /\ files[q].size = results[Len(results)].size

C27_AirplaneModeForcesOff ==
  /\ [](airplane_mode =>
          /\ ~wifi_enabled /\ ~bluetooth_enabled /\ ~casting_enabled
          /\ ~wifi_toggle.checked /\ ~bluetooth_toggle.checked
          /\ ~casting_toggle.checked
          /\ ~wifi_toggle.enabled /\ ~bluetooth_toggle.enabled
          /\ ~casting_toggle.enabled)
  /\ [][ (airplane_mode /\ ~airplane_mode') =>
           /\ wifi_toggle'.enabled /\ bluetooth_toggle'.enabled
           /\ casting_toggle'.enabled
           /\ ~wifi_enabled' /\ ~bluetooth_enabled' /\ ~casting_enabled' ]_vars
  /\ [][ /\ (~wifi_enabled /\ wifi_enabled') =>
              (~wifi_toggle.checked /\ wifi_toggle'.checked)
         /\ (~bluetooth_enabled /\ bluetooth_enabled') =>
              (~bluetooth_toggle.checked /\ bluetooth_toggle'.checked)
         /\ (~casting_enabled /\ casting_enabled') =>
              (~casting_toggle.checked /\ casting_toggle'.checked) ]_vars

\* Airplane mode was switched on while Wi-Fi and Bluetooth were on, and is off
\* again: the check boxes are enabled and the three flags are still false.
C27_Witness ==
  /\ ~airplane_mode
  /\ prior = << TRUE, TRUE, FALSE >>
  /\ ~wifi_enabled /\ ~bluetooth_enabled /\ ~casting_enabled
  /\ wifi_toggle = CheckBox(FALSE, TRUE)
  /\ bluetooth_toggle = CheckBox(FALSE, TRUE)
  /\ casting_toggle = CheckBox(FALSE, TRUE)

\* Airplane mode is on.
C27_WitnessOn == airplane_mode /\ prior[1]

\* ===================================================== schedule timer: C28
\* C28: once the window is initialised, and so after every save_schedule, the
\* schedule timer is running exactly when the tuneup_interval of
\* schedule_config is greater than 0, then with a period of that many minutes;
\* and execute_scheduled_tasks runs only while that interval is greater than 0.
C28_TimerFollowsInterval ==
  /\ [](win = "open" =>
          /\ timer_active <=> ScheduleInterval(schedule_config) > 0
          /\ timer_active =>
               timer_period = ScheduleInterval(schedule_config) * 60 * 1000)
  /\ [][ executions' # executions =>
           ScheduleInterval(schedule_config) > 0 ]_vars

\* The timer has fired, then an interval of 0 was saved: the timer is stopped.
C28_Witness ==
  /\ win = "open"
  /\ executions >= 1
  /\ cfg_pc = "saved"
  /\ ScheduleInterval(schedule_config) = 0
  /\ ~timer_active
  /\ timer_period > 0

\* The window was initialised from a file that holds an interval of two
\* minutes: the timer runs.
C28_WitnessInit ==
  /\ win = "open"
  /\ cfg_pc = "loaded"
  /\ timer_active
  /\ timer_period = 2 * 60 * 1000

\* ================================================ scheduled clean-up: C29
\* The current schedule_config has the key auto_cleanup, and it is true.
ConfigAsksCleanup ==
  /\ "auto_cleanup" \in DOMAIN schedule_config
  /\ schedule_config["auto_cleanup"] = PyBool(TRUE)

\* C29: an execution of execute_scheduled_tasks while the auto_cleanup flag of
\* schedule_config is false or absent does not call clean_temp_files, removes no
\* temporary entry, and refreshes the dashboard; clean_temp_files never runs
\* more often than the flag was found true.
C29_CleanupOnlyWhenFlagged ==
  /\ [][ (executions' # executions /\ ~ConfigAsksCleanup) =>
           /\ cleanups' = cleanups
           /\ temp_entries' = temp_entries
           /\ refreshes' = refreshes + 1 ]_vars
  /\ [][ (cleanups' # cleanups \/ temp_entries' # temp_entries) =>
           (executions' # executions /\ ConfigAsksCleanup) ]_vars

\* A tune-up has run with the flag false in schedule_config while the check
\* box was checked and not saved: nothing was cleaned.
C29_Witness ==
  /\ executions >= 1
  /\ refreshes = executions
  /\ cleanups = 0
  /\ temp_entries # {}
  /\ "auto_cleanup" \in DOMAIN schedule_config
  /\ ~ConfigAsksCleanup
  /\ auto_cleanup_checkbox

\* A tune-up has run with no auto_cleanup key in schedule_config.
C29_WitnessAbsent ==
  /\ executions >= 1
  /\ cleanups = 0
  /\ temp_entries # {}
  /\ "auto_cleanup" \notin DOMAIN schedule_config

\* ============================================================ read_logs: C30
\* C30 as stated: for every limit >= 0, read_logs(limit) takes at most limit
\* lines, the last ones, from each readable log file, and its result is never
\* empty.
C30_AsStated ==
  log_pc = "done" =>
    /\ \A f \in 1..MaxLogFiles :
         /\ Len(taken[f]) <= limit
         /\ log_files[f].state = "ok" =>
              taken[f] = LastOf(log_files[f].lines, limit)
    /\ entries # << >>

\* What holds: the claim for every limit >= 1, and a result that is never
\* empty for every limit; with limit = 0 every line of every readable file is
\* taken.
C30_PositiveLimit ==
  log_pc = "done" =>
    /\ limit >= 1 =>
         \A f \in 1..MaxLogFiles :
           /\ Len(taken[f]) <= limit
           /\ log_files[f].state = "ok" =>
                taken[f] = LastOf(log_files[f].lines, limit)
    /\ limit = 0 =>
         \A f \in 1..MaxLogFiles :
           log_files[f].state = "ok" => taken[f] = log_files[f].lines
    /\ entries # << >>
    /\ (\A f \in 1..MaxLogFiles :
          log_files[f].state = "absent" \/
          (log_files[f].state = "ok" /\ taken[f] = << >>))
         => entries = << Placeholder >>

====
